---- MODULE Spec2Model ----
(***************************************************************************)
(* State-machine model of the CEOS-ARD (CARD4L) STAC item validator:       *)
(* ceos_ard_validator/validate.py (Validator and the module-level          *)
(* validate), ceos_ard_validator/cli.py (the `validate` command) and       *)
(* ceos_ard_validator/constants.py.                                        *)
(*                                                                         *)
(* Python values are tagged records; Python strings are sequences of       *)
(* one-character strings (so that float() and str.isupper() are computed   *)
(* on the characters); messages are built by concatenation as the          *)
(* f-strings build them.                                                   *)
(***************************************************************************)
EXTENDS Integers, Sequences, FiniteSets, TLC

VARIABLES
    item,                 \* the pystac Item under validation (unchanged record)
    results,              \* heap: Validator id -> that Validator's self.results
    self,                 \* id of the Validator object in use (0: none yet)
    pc,                   \* position inside Validator.validate ("idle": no call)
    i,                    \* loop index of validate_extensions / validate_assets
    seen_required_roles,  \* local of validate_assets (a list, or None)
    exc,                  \* exception that ended the last call ("" : none)
    invoked,              \* calls of the JSON-schema validator, per extension
    returned,             \* what each completed validate() handed to its caller
    out,                  \* lines printed by the cli `validate` command
    entry,                \* how the call in progress (or the last) was entered
    calls                 \* number of validate calls started

vars == <<item, results, self, pc, i, seen_required_roles, exc, invoked,
          returned, out, entry, calls>>

----------------------------------------------------------------------------
(* Bounds of the model *)

MaxCalls == 2

MaxAssets == 2

----------------------------------------------------------------------------
(* constants.py *)

SPECIFICATIONS == <<"SR", "ST">>

SPECIFICATION_VERSION == "5.0"

REQUIRED_EXTENSIONS ==
    << "https://stac-extensions.github.io/eo/v1.0.0/schema.json",
       "https://stac-extensions.github.io/projection/v1.0.0/schema.json",
       "https://stac-extensions.github.io/raster/v1.1.0/schema.json",
       "https://stac-extensions.github.io/view/v1.0.0/schema.json" >>

----------------------------------------------------------------------------
(* Python values *)

RECURSIVE Join(_)
Join(cs) == IF cs = <<>> THEN "" ELSE Head(cs) \o Join(Tail(cs))

MemberNames == {"bias", "stddev"}

Absent == [t |-> "absent", n |-> 0, s |-> <<>>]

SNone == [t |-> "None", n |-> 0, s |-> <<>>]

SNum(k) == [t |-> "num", n |-> k, s |-> <<>>]

SStr(cs) == [t |-> "str", n |-> 0, s |-> cs]

SList(k) == [t |-> "list", n |-> k, s |-> <<>>]

NoMembers == [k \in MemberNames |-> Absent]

V(sc) == [t |-> sc.t, n |-> sc.n, s |-> sc.s, m |-> NoMembers]

None == V(SNone)

Obj(kind, size) == [t |-> kind, n |-> size, s |-> <<>>, m |-> NoMembers]

Dict(bias, stddev) ==
    [t |-> "dict", n |-> 0, s |-> <<>>,
     m |-> [k \in MemberNames |-> IF k = "bias" THEN bias ELSE stddev]]

DictGet(d, name) == IF d.m[name].t = "absent" THEN SNone ELSE d.m[name]

Truthy(v) ==
    CASE v.t = "None" -> FALSE
      [] v.t = "num"  -> v.n # 0
      [] v.t = "str"  -> Len(v.s) > 0
      [] v.t = "list" -> v.n > 0
      [] v.t = "dict" -> v.n > 0 \/ \E k \in MemberNames : v.m[k].t # "absent"
      [] v.t = "datetime" -> TRUE

RECURSIVE ListRepr(_)
ListRepr(k) == IF k = 0 THEN "" ELSE IF k = 1 THEN "0" ELSE "0, " \o ListRepr(k - 1)

PyStr(v) ==
    CASE v.t = "None" -> "None"
      [] v.t = "num"  -> ToString(v.n)
      [] v.t = "str"  -> Join(v.s)
      [] v.t = "list" -> "[" \o ListRepr(v.n) \o "]"

PyEqStr(v, str) == v.t = "str" /\ Join(v.s) = str

PyIn(v, values) == \E k \in 1..Len(values) : PyEqStr(v, values[k])

Digits == {"0", "1", "2", "3", "4", "5", "6", "7", "8", "9"}

UpperChars == {"A", "B", "C", "D", "E", "F", "G", "H", "I", "J", "K", "L", "M",
               "N", "O", "P", "Q", "R", "S", "T", "U", "V", "W", "X", "Y", "Z"}

(* float() on a str, for strings over the characters used here: an optional
   sign, then nan / inf / infinity or decimal digits with at most one point.
   (Python also strips blanks and takes exponents; no string here has them.) *)
IsFloatLiteral(cs) ==
    LET body == IF cs # <<>> /\ Head(cs) \in {"+", "-"} THEN Tail(cs) ELSE cs
        dots == {k \in 1..Len(body) : body[k] = "."}
    IN  \/ Join(body) \in {"nan", "inf", "infinity"}
        \/ /\ \A k \in 1..Len(body) : body[k] \in Digits \cup {"."}
           /\ Cardinality(dots) <= 1
           /\ \E k \in 1..Len(body) : body[k] \in Digits

FloatOutcome(v) ==
    CASE v.t = "None" -> "TypeError"
      [] v.t = "num"  -> "ok"
      [] v.t = "str"  -> IF IsFloatLiteral(v.s) THEN "ok" ELSE "ValueError"
      [] v.t = "list" -> "TypeError"

----------------------------------------------------------------------------
(* Result model and the results dict (a dict keeps insertion order) *)

Result(result_type, message, suggestion) ==
    [severity |-> result_type, message |-> message, suggestion |-> suggestion]

Error(message) == Result("Error", message, <<>>)

is_error(result) == result.severity = "Error"

Paths(rs) == {rs[k].path : k \in 1..Len(rs)}

At(rs, path) ==
    IF path \in Paths(rs)
    THEN rs[CHOOSE k \in 1..Len(rs) : rs[k].path = path].results
    ELSE <<>>

add_result(rs, name, result) ==
    IF name \in Paths(rs)
    THEN [k \in 1..Len(rs) |->
            IF rs[k].path = name
            THEN [rs[k] EXCEPT !.results = Append(@, result)]
            ELSE rs[k]]
    ELSE Append(rs, [path |-> name, results |-> <<result>>])

(* Running state of one checker: the results dict and the exception, if any,
   that has propagated out of a statement; later statements are skipped. *)
Ok(rs) == [res |-> rs, exc |-> ""]

Raise(rs, e) == [res |-> rs, exc |-> e]

Add(st, name, result) == [st EXCEPT !.res = add_result(st.res, name, result)]

property(name) == item.properties[name]

Run(st, next) == IF st.exc = "" THEN next ELSE st

----------------------------------------------------------------------------
(* Validator: extension and structural checks *)

validate_extension_no_declared_check(extension) ==
    [invoked |-> 1,
     result |->
        IF extension \in item.schema_invalid \/ extension \notin item.stac_extensions
        THEN << Result("Error",
                  "object does not pass validation against " \o extension,
                  << "Run 'ceos-ard validate-jsonschema " \o item.self_href
                     \o "' to see the validation error" >>) >>
        ELSE <<>>]

(* The suggestion's two backquotes are written as ' : a TLA+ string cannot
   hold a backquote. *)
validate_extension(extension) ==
    IF extension \in item.stac_extensions
    THEN [invoked |-> 1,
          result |->
            IF extension \in item.schema_invalid
            THEN << Result("Error",
                      "object does not pass validation against " \o extension,
                      << "Run 'ceos-ard validate-jsonschema " \o item.self_href
                         \o "' to see the validation error" >>) >>
            ELSE <<>>]
    ELSE [invoked |-> 0,
          result |-> << Error("missing required extension: " \o extension) >>]

validate_extensions_body(rs, extension) ==
    LET r == validate_extension(extension).result
    IN  IF r # <<>> THEN add_result(rs, "extension", r[1]) ELSE rs

validate_stac_items(st) ==
    LET s1 == IF ~Truthy(item.geometry)
              THEN Add(st, "geometry", Error("geometry cannot be null"))
              ELSE st
    IN  IF ~Truthy(item.bbox)
        THEN Add(s1, "bbox", Error("bbox cannot be null"))
        ELSE s1

----------------------------------------------------------------------------
(* Validator: property rules *)

check_property_in(st, name, values, valuesRepr) ==
    Run(st,
        IF ~PyIn(property(name), values)
        THEN Add(st, name,
                 Error(name \o " is not an expected value: value="
                       \o PyStr(property(name)) \o ", expected=" \o valuesRepr))
        ELSE st)

check_property_equal(st, name, expected) ==
    Run(st,
        IF ~PyEqStr(property(name), expected)
        THEN Add(st, name,
                 Error(name \o " is not the expected value: value="
                       \o PyStr(property(name)) \o ", expected=" \o expected))
        ELSE st)

check_member_is_number(st, p, name) ==
    Run(st,
        LET d == property(p)
        IN  IF ~Truthy(d)
            THEN Add(st, p, Error("expected property is missing: " \o p \o "." \o name))
            ELSE IF d.t # "dict"
            THEN Raise(st.res, "AttributeError")
            ELSE LET value == DictGet(d, name)
                     f == FloatOutcome(value)
                 IN  CASE f = "ok" -> st
                       [] f = "ValueError" ->
                            Add(st, p \o "." \o name,
                                Error("value is not a number: " \o PyStr(value)))
                       [] f = "TypeError" -> Raise(st.res, "TypeError"))

check_property_is_geometric_accuracy(st, name) ==
    check_member_is_number(check_member_is_number(st, name, "bias"), name, "stddev")

check_lowercase(st, name) ==
    Run(st,
        LET value == property(name)
        IN  IF Truthy(value) /\ \E k \in 1..Len(value.s) : value.s[k] \in UpperChars
            THEN Add(st, name, Error(name \o " must be lowercase: " \o PyStr(value)))
            ELSE st)

check_required_property(st, name) ==
    Run(st,
        IF ~Truthy(property(name))
        THEN Add(st, name, Error("missing required property: " \o name))
        ELSE st)

validate_item_properties(st) ==
    LET s1 == check_property_in(st, "card4l:specification", SPECIFICATIONS,
                                "['SR', 'ST']")
        s2 == check_property_equal(s1, "card4l:specification_version",
                                   SPECIFICATION_VERSION)
        s3 == check_property_is_geometric_accuracy(s2, "card4l:northern_geometric_accuacy")
        s4 == check_property_is_geometric_accuracy(s3, "card4l:eastern_geometric_accuacy")
        s5 == Run(s4, IF ~Truthy(item.datetime)
                      THEN Add(s4, "datetime", Error("datetime cannot be null"))
                      ELSE s4)
        s6 == Run(s5, IF ~Truthy(item.instruments)
                      THEN Add(s5, "instruments", Error("instruments are required"))
                      ELSE s5)
        s7 == check_lowercase(s6, "constellation")
        s8 == Run(s7,
                  IF /\ ~Truthy(property("proj:epsg"))
                     /\ ~(Truthy(property("proj:wkt2")) \/ Truthy(property("proj:projjson")))
                  THEN Add(s7, "proj",
                           Error("proj:wkt2 or proj:projjson is required if proj:epsg is null"))
                  ELSE s7)
        s9 == check_required_property(s8, "view:off_nadir")
        s10 == check_required_property(s9, "view:azimuth")
        s11 == check_required_property(s10, "view:sun_azimuth")
    IN  check_required_property(s11, "view:sun_elevation")

----------------------------------------------------------------------------
(* Validator: link rules *)

DOCX == "application/vnd.openxmlformats-officedocument.wordprocessingml.document"

PDF == "application/pdf"

RECURSIVE ReprItems(_)
ReprItems(strs) ==
    IF strs = <<>> THEN ""
    ELSE IF Len(strs) = 1 THEN "'" \o strs[1] \o "'"
    ELSE "'" \o strs[1] \o "', " \o ReprItems(Tail(strs))

ReprList(strs) == "[" \o ReprItems(strs) \o "]"

(* pystac's Item.get_single_link: the first link with the relation, else None
   (here: a sequence holding the link, or the empty sequence). *)
get_single_link(rel) ==
    LET ks == {k \in 1..Len(item.links) : item.links[k].rel = rel}
    IN  IF ks = {} THEN <<>>
        ELSE << item.links[CHOOSE k \in ks : \A j \in ks : k <= j] >>

is_st == PyEqStr(property("card4l:specification"), "ST")

is_sr_else_branch == TRUE

is_sr == PyEqStr(property("card4l:specification"), "SR")

check_link_always_error(st, rel, media_types, result_type) ==
    Run(st,
        LET link == get_single_link(rel)
        IN  IF link = <<>>
            THEN Add(st, "links[rel=" \o rel \o "]", Error("missing link"))
            ELSE IF /\ media_types # <<>>
                    /\ ~\E k \in 1..Len(media_types) : media_types[k] = link[1].media_type
            THEN Add(st, "links[rel=" \o rel \o "]",
                     Error("invalid media type: actual=" \o link[1].media_type
                           \o ", expected=" \o ReprList(media_types)))
            ELSE st)

check_link(st, rel, media_types, result_type) ==
    Run(st,
        LET link == get_single_link(rel)
        IN  IF link = <<>>
            THEN Add(st, "links[rel=" \o rel \o "]",
                     Result(result_type, "missing link", <<>>))
            ELSE IF /\ media_types # <<>>
                    /\ ~\E k \in 1..Len(media_types) : media_types[k] = link[1].media_type
            THEN Add(st, "links[rel=" \o rel \o "]",
                     Result(result_type,
                            "invalid media type: actual=" \o link[1].media_type
                            \o ", expected=" \o ReprList(media_types), <<>>))
            ELSE st)

validate_algorithms(st) ==
    Run(st,
        IF ~Truthy(property("processing:software")) /\ get_single_link("about") = <<>>
        THEN Add(st, "about",
                 Error("item must have either property 'processing:software' or a link with with a relation type 'about'"))
        ELSE st)

validate_links(st) ==
    LET s1 == check_link(st, "card4l-document", <<DOCX, PDF>>, "Error")
        s2 == validate_algorithms(s1)
        s3 == check_link(s2, "access", <<>>, "Warning")
    IN  IF is_st
        THEN check_link(s3, "atmosphere-emissivity", <<>>, "Error")
        ELSE IF is_sr
        THEN check_link(
                 check_link(
                     check_link(
                         check_link(s3, "measurement-normalization", <<>>, "Error"),
                         "atmospheric-scattering", <<>>, "Error"),
                     "water-vapor", <<>>, "Error"),
                 "ozone", <<>>, "Error")
        ELSE s3

----------------------------------------------------------------------------
(* Validator: asset roles *)

PyNoneList == [isNone |-> TRUE, items |-> <<>>]

PyList(items) == [isNone |-> FALSE, items |-> items]

Contains(seen, x) == \E k \in 1..Len(seen.items) : seen.items[k] = x

(* seen_required_roles.append(x); return seen_required_roles *)
append_and_return(seen, x) ==
    IF seen.isNone
    THEN [ret |-> seen, exc |-> "AttributeError"]
    ELSE [ret |-> PyList(Append(seen.items, x)), exc |-> ""]

MetadataSubRoles_cloud_first ==
    << "incomplete-testing", "saturation", "cloud", "cloud-shadow", "date",
       "snow-ice", "land-water", "incidence-angle", "azimuth", "sun-azimuth",
       "sun-elevation", "terrain-shadow", "terrain-occlusion",
       "terrain-illumination" >>

(* The elif chain under `elif "metadata" in roles`, in source order. *)
MetadataSubRoles ==
    << "date", "incomplete-testing", "saturation", "cloud", "cloud-shadow",
       "snow-ice", "land-water", "incidence-angle", "azimuth", "sun-azimuth",
       "sun-elevation", "terrain-shadow", "terrain-occlusion",
       "terrain-illumination" >>

(* The branches of that chain that append their role to seen_required_roles. *)
AppendingSubRoles == {"incomplete-testing", "saturation", "cloud", "cloud-shadow"}

validate_asset(roles, seen) ==
    IF roles = {}
    THEN [ret |-> PyNoneList, exc |-> ""]
    ELSE IF ("reflectance" \in roles \/ "temperature" \in roles) /\ "data" \in roles
    THEN append_and_return(seen, "data")
    ELSE IF "metadata" \in roles
    THEN LET ks == {k \in 1..Len(MetadataSubRoles) : MetadataSubRoles[k] \in roles}
         IN  IF ks = {} THEN [ret |-> seen, exc |-> ""]
             ELSE LET first == MetadataSubRoles[CHOOSE k \in ks : \A j \in ks : k <= j]
                  IN  IF first \in AppendingSubRoles
                      THEN append_and_return(seen, first)
                      ELSE [ret |-> seen, exc |-> ""]
    ELSE [ret |-> seen, exc |-> ""]

check_required_metadata_role(st, seen, role) ==
    Run(st,
        IF ~Contains(seen, role)
        THEN Add(st, "assets[role=" \o role \o "]",
                 Error("missing asset with roles: " \o role \o ", metadata"))
        ELSE st)

(* validate_assets after its loop: `"data" not in None` is a TypeError. *)
validate_assets_tail(st, seen) ==
    IF seen.isNone
    THEN Raise(st.res, "TypeError")
    ELSE LET s1 == IF ~Contains(seen, "data")
                   THEN Add(st, "assets[role=data]",
                            Error("missing asset with roles: (reflectance or temperature), data"))
                   ELSE st
             s2 == check_required_metadata_role(s1, seen, "incomplete-testing")
             s3 == check_required_metadata_role(s2, seen, "saturation")
             s4 == check_required_metadata_role(s3, seen, "cloud")
         IN  check_required_metadata_role(s4, seen, "cloud-shadow")

----------------------------------------------------------------------------
(* cli.py: the `validate` command's output, one string per printed line *)

(* `result.is_error` (no call): a bound method object, truthy whatever the
   method would return. *)
is_error_attribute_truthy(result) == TRUE

cli_label(result) ==
    IF is_error_attribute_truthy(result) THEN "  - ERROR: " ELSE "  - WARNING: "

RECURSIVE cli_results(_)
cli_results(rl) ==
    IF rl = <<>> THEN <<>>
    ELSE << cli_label(rl[1]) \o rl[1].message >>
         \o (IF rl[1].suggestion # <<>>
             THEN << "    SUGGESTION: " \o rl[1].suggestion[1] >>
             ELSE <<>>)
         \o cli_results(Tail(rl))

RECURSIVE cli_paths(_)
cli_paths(rs) ==
    IF rs = <<>> THEN <<>>
    ELSE << "At '" \o rs[1].path \o "': " >> \o cli_results(rs[1].results)
         \o cli_paths(Tail(rs))

cli_validate_output(validation_result) ==
    IF validation_result = <<>> THEN << "OK" >> ELSE cli_paths(validation_result)

----------------------------------------------------------------------------
(* The records validated: a compliant item, varied one rule area at a time
   over that area's whole input domain, and varied coarsely in all areas at
   once. *)

ExtSet == {REQUIRED_EXTENSIONS[k] : k \in 1..Len(REQUIRED_EXTENSIONS)}

(* media_type is the text the f-string prints: "None" for a link without a
   media type, which no allowed set holds. *)
Link(rel, media_type) == [rel |-> rel, media_type |-> media_type]

CoreRels == {"card4l-document", "about", "access"}

VariantRels == {"atmosphere-emissivity", "measurement-normalization",
                "atmospheric-scattering", "water-vapor", "ozone"}

RelOrder == << "card4l-document", "about", "access", "atmosphere-emissivity",
               "measurement-normalization", "atmospheric-scattering",
               "water-vapor", "ozone" >>

(* The links with relations `rels`, in RelOrder; the card4l-document link has
   media type `media`, the others text/html. *)
RECURSIVE LinksOf(_, _, _)
LinksOf(rels, media, k) ==
    IF k > Len(RelOrder) THEN <<>>
    ELSE (IF RelOrder[k] \in rels
          THEN << Link(RelOrder[k],
                       IF RelOrder[k] = "card4l-document" THEN media ELSE "text/html") >>
          ELSE <<>>)
         \o LinksOf(rels, media, k + 1)

PropNames ==
    {"card4l:specification", "card4l:specification_version",
     "card4l:northern_geometric_accuacy", "card4l:eastern_geometric_accuacy",
     "constellation", "proj:epsg", "proj:wkt2", "proj:projjson",
     "view:off_nadir", "view:azimuth", "view:sun_azimuth", "view:sun_elevation",
     "processing:software"}

Str_SR == V(SStr(<<"S", "R">>))

Str_ST == V(SStr(<<"S", "T">>))

BaseProperties ==
    [p \in PropNames |->
        CASE p = "card4l:specification" -> Str_SR
          [] p = "card4l:specification_version" -> V(SStr(<<"5", ".", "0">>))
          [] p \in {"card4l:northern_geometric_accuacy",
                    "card4l:eastern_geometric_accuacy"} -> Dict(SNum(1), SNum(2))
          [] p = "constellation" -> V(SStr(<<"l", "9">>))
          [] p = "proj:epsg" -> V(SNum(32610))
          [] p \in {"proj:wkt2", "proj:projjson"} -> None
          [] p = "processing:software" -> Obj("dict", 1)
          [] OTHER -> V(SNum(30))]

FullAssets ==
    << {"data", "reflectance"}, {"metadata", "incomplete-testing"},
       {"metadata", "saturation"}, {"metadata", "cloud"},
       {"metadata", "cloud-shadow"} >>

BaseItem ==
    [kind |-> "Item",
     self_href |-> "item.json",
     stac_extensions |-> ExtSet,
     schema_invalid |-> {},
     geometry |-> Obj("dict", 2),
     bbox |-> V(SList(4)),
     datetime |-> Obj("datetime", 0),
     instruments |-> V(SList(1)),
     properties |-> BaseProperties,
     links |-> LinksOf(CoreRels \cup VariantRels, PDF, 1),
     assets |-> FullAssets]

WithProps(it, f) == [it EXCEPT !.properties = f @@ it.properties]

SpecValues == {Str_SR, Str_ST, V(SStr(<<"X", "X">>)), None}

ExtItems ==
    {[BaseItem EXCEPT !.stac_extensions = d, !.schema_invalid = b] :
        <<d, b>> \in {x \in (SUBSET ExtSet) \X (SUBSET ExtSet) : x[2] \subseteq x[1]}}

ScalarItems ==
    {[WithProps(BaseItem,
                [p \in {"card4l:specification", "card4l:specification_version",
                        "constellation"} |->
                   IF p = "card4l:specification" THEN x[1]
                   ELSE IF p = "card4l:specification_version" THEN x[2] ELSE x[3]])
        EXCEPT !.datetime = x[4], !.instruments = x[5]] :
        x \in SpecValues
              \X {V(SStr(<<"5", ".", "0">>)), V(SStr(<<"4", ".", "0">>)), None}
              \X {V(SStr(<<"l", "9">>)), V(SStr(<<"L", "9">>)), None}
              \X {Obj("datetime", 0), None}
              \X {V(SList(1)), V(SList(0)), None}}

Members ==
    {Absent, SNone, SNum(1), SStr(<<"1", ".", "5">>), SStr(<<"a", "b", "c">>), SList(1)}

AccuracyValues ==
    {None, Obj("dict", 0), V(SStr(<<"a", "b", "c">>))}
        \cup {Dict(x[1], x[2]) : x \in Members \X Members}

AccuracyItems ==
    {WithProps(BaseItem,
               [p \in {"card4l:northern_geometric_accuacy",
                       "card4l:eastern_geometric_accuacy"} |->
                  IF p = "card4l:northern_geometric_accuacy" THEN x[1] ELSE x[2]]) :
        x \in (AccuracyValues \X {Dict(SNum(1), SNum(2)), None,
                                  Dict(SStr(<<"a", "b", "c">>), SNone)})
              \cup ({Dict(SNum(1), SNum(2))} \X AccuracyValues)}

ViewValues == {None, V(SNum(0)), V(SNum(30))}

ViewItems ==
    {WithProps(BaseItem,
               [p \in {"view:off_nadir", "view:azimuth", "view:sun_azimuth",
                       "view:sun_elevation"} |->
                  CASE p = "view:off_nadir" -> x[1]
                    [] p = "view:azimuth" -> x[2]
                    [] p = "view:sun_azimuth" -> x[3]
                    [] p = "view:sun_elevation" -> x[4]]) :
        x \in ViewValues \X ViewValues \X ViewValues \X ViewValues}

ProjItems ==
    {WithProps(BaseItem,
               [p \in {"proj:epsg", "proj:wkt2", "proj:projjson"} |->
                  CASE p = "proj:epsg" -> x[1]
                    [] p = "proj:wkt2" -> x[2]
                    [] p = "proj:projjson" -> x[3]]) :
        x \in {None, V(SNum(0)), V(SNum(32610))}
              \X {None, V(SStr(<<"a", "b", "c">>))}
              \X {None, Obj("dict", 1)}}

MediaTypes == {PDF, DOCX, "text/html", "None"}

CoreLinkItems ==
    {[WithProps(BaseItem, [p \in {"processing:software"} |-> x[3]])
        EXCEPT !.links = LinksOf(x[1] \cup VariantRels, x[2], 1) \o x[4]] :
        x \in (SUBSET CoreRels) \X MediaTypes \X {None, Obj("dict", 1)}
              \X {<<>>, << Link("card4l-document", "text/html") >>}}

VariantLinkItems ==
    {[WithProps(BaseItem, [p \in {"card4l:specification"} |-> x[2]])
        EXCEPT !.links = LinksOf(CoreRels \cup x[1], PDF, 1)] :
        x \in (SUBSET VariantRels) \X SpecValues}

RoleSets ==
    { {}, {"data", "reflectance"}, {"data", "temperature"}, {"data"},
      {"metadata", "cloud"}, {"metadata", "cloud-shadow"},
      {"metadata", "date", "cloud"}, {"metadata", "snow-ice", "saturation"},
      {"metadata", "data", "reflectance", "incomplete-testing"},
      {"thumbnail"} }

RECURSIVE SeqsUpTo(_, _)
SeqsUpTo(S, n) ==
    IF n = 0 THEN {<<>>}
    ELSE LET shorter == SeqsUpTo(S, n - 1)
         IN  shorter \cup {Append(q, x) : q \in shorter, x \in S}

AssetItems ==
    {[BaseItem EXCEPT !.assets = x[1] \o x[2] \o x[3]] :
        x \in {<<<<>>, q, <<>>>> : q \in SeqsUpTo(RoleSets, MaxAssets)}
              \cup {<<FullAssets, q, <<>>>> : q \in SeqsUpTo(RoleSets, MaxAssets)}
              \cup {<<<<>>, q, FullAssets>> : q \in SeqsUpTo(RoleSets, MaxAssets)}}

MixedItems ==
    {[WithProps(BaseItem, x[5])
        EXCEPT !.kind = x[1], !.stac_extensions = x[2], !.geometry = x[3],
               !.bbox = x[4], !.links = x[6], !.assets = x[7]] :
        x \in {"Item", "Collection"}
              \X {ExtSet, ExtSet \ {REQUIRED_EXTENSIONS[1]}}
              \X {Obj("dict", 2), None}
              \X {V(SList(4)), None}
              \X { [p \in {"view:off_nadir"} |-> V(SNum(30))],
                   [p \in {"view:off_nadir"} |-> V(SNum(0))],
                   [p \in {"card4l:northern_geometric_accuacy"} |->
                        Dict(SNone, SNum(1))] }
              \X { LinksOf(CoreRels \cup VariantRels, PDF, 1),
                   LinksOf((CoreRels \ {"access"}) \cup VariantRels, PDF, 1),
                   <<>> }
              \X { FullAssets, <<>>, << {} >> }}

Items ==
    ExtItems \cup ScalarItems \cup AccuracyItems \cup ViewItems \cup ProjItems
        \cup CoreLinkItems \cup VariantLinkItems \cup AssetItems \cup MixedItems

----------------------------------------------------------------------------
(* The state machine *)

NoInvocations == [k \in 1..Len(REQUIRED_EXTENSIONS) |-> 0]

Init ==
    /\ item \in Items
    /\ results = <<>>
    /\ self = 0
    /\ pc = "idle"
    /\ i = 1
    /\ seen_required_roles = PyList(<<>>)
    /\ exc = ""
    /\ invoked = NoInvocations
    /\ returned = <<>>
    /\ out = <<>>
    /\ entry = "validate(href)"
    /\ calls = 0

(* validate(href, recurse): read the item, make a Validator with an empty
   results dict and enter Validator.validate. *)
ValidateHref ==
    /\ pc = "idle"
    /\ calls < MaxCalls
    /\ \E recurse \in BOOLEAN :
          IF recurse \/ item.kind # "Item"
          THEN /\ exc' = "NotImplementedError"
               /\ UNCHANGED <<results, self, pc, invoked>>
          ELSE /\ exc' = ""
               /\ self' = self + 1
               /\ results' = Append(results, <<>>)
               /\ pc' = "extensions"
               /\ invoked' = NoInvocations
    /\ i' = 1
    /\ out' = <<>>
    /\ entry' = "validate(href)"
    /\ calls' = calls + 1
    /\ UNCHANGED <<item, seen_required_roles, returned>>

(* Validator.validate() called again on the Validator object already made. *)
ValidatorValidate ==
    /\ pc = "idle"
    /\ calls < MaxCalls
    /\ self > 0
    /\ pc' = "extensions"
    /\ exc' = ""
    /\ invoked' = NoInvocations
    /\ i' = 1
    /\ entry' = "Validator.validate()"
    /\ calls' = calls + 1
    /\ UNCHANGED <<item, results, self, seen_required_roles, returned, out>>

(* One finished checker: store its results dict, go on to `next`, or leave
   validate() with the exception it raised. *)
Finish(st, next) ==
    /\ results' = [results EXCEPT ![self] = st.res]
    /\ IF st.exc = ""
       THEN pc' = next /\ exc' = ""
       ELSE pc' = "idle" /\ exc' = st.exc

(* One iteration of the loop of validate_extensions. *)
ValidateExtensions ==
    /\ pc = "extensions"
    /\ LET extension == REQUIRED_EXTENSIONS[i]
       IN  /\ results' = [results EXCEPT
                            ![self] = validate_extensions_body(@, extension)]
           /\ invoked' = [invoked EXCEPT
                            ![i] = @ + validate_extension(extension).invoked]
    /\ IF i < Len(REQUIRED_EXTENSIONS)
       THEN i' = i + 1 /\ pc' = pc
       ELSE i' = 1 /\ pc' = "stac_items"
    /\ UNCHANGED <<item, self, seen_required_roles, exc, returned, out, entry, calls>>

ValidateStacItems ==
    /\ pc = "stac_items"
    /\ Finish(validate_stac_items(Ok(results[self])), "item_properties")
    /\ UNCHANGED <<item, self, i, seen_required_roles, invoked, returned, out, entry, calls>>

ValidateItemProperties ==
    /\ pc = "item_properties"
    /\ Finish(validate_item_properties(Ok(results[self])), "links")
    /\ UNCHANGED <<item, self, i, seen_required_roles, invoked, returned, out, entry, calls>>

ValidateLinks ==
    /\ pc = "links"
    /\ Finish(validate_links(Ok(results[self])), "assets")
    /\ UNCHANGED <<item, self, i, seen_required_roles, invoked, returned, out, entry, calls>>

(* validate_assets: seen_required_roles = [] *)
ValidateAssetsEnter ==
    /\ pc = "assets"
    /\ pc' = "assets_loop"
    /\ i' = 1
    /\ seen_required_roles' = PyList(<<>>)
    /\ UNCHANGED <<item, results, self, exc, invoked, returned, out, entry, calls>>

(* One iteration of the loop of validate_assets. *)
ValidateAsset ==
    /\ pc = "assets_loop"
    /\ i <= Len(item.assets)
    /\ LET r == validate_asset(item.assets[i], seen_required_roles)
       IN  IF r.exc = ""
           THEN /\ seen_required_roles' = r.ret
                /\ i' = i + 1
                /\ UNCHANGED <<pc, exc>>
           ELSE /\ pc' = "idle"
                /\ exc' = r.exc
                /\ UNCHANGED <<i, seen_required_roles>>
    /\ UNCHANGED <<item, results, self, invoked, returned, out, entry, calls>>

(* validate_assets after the loop. *)
ValidateAssetsFinish ==
    /\ pc = "assets_loop"
    /\ i > Len(item.assets)
    /\ Finish(validate_assets_tail(Ok(results[self]), seen_required_roles), "return")
    /\ UNCHANGED <<item, self, i, seen_required_roles, invoked, returned, out, entry, calls>>

(* return self.results: the caller gets the dict object itself (ref); snap is
   its content at that moment. *)
ValidateReturn ==
    /\ pc = "return"
    /\ returned' = Append(returned, [ref |-> self, snap |-> results[self]])
    /\ pc' = "idle"
    /\ UNCHANGED <<item, results, self, i, seen_required_roles, exc, invoked, out, entry, calls>>

(* The cli `validate` command printing what validate_href returned. *)
CliValidate ==
    /\ pc = "idle"
    /\ exc = ""
    /\ entry = "validate(href)"
    /\ returned # <<>>
    /\ out = <<>>
    /\ out' = cli_validate_output(results[returned[Len(returned)].ref])
    /\ UNCHANGED <<item, results, self, pc, i, seen_required_roles, exc, invoked,
                   returned, entry, calls>>

Next ==
    \/ ValidateHref
    \/ ValidatorValidate
    \/ ValidateExtensions
    \/ ValidateStacItems
    \/ ValidateItemProperties
    \/ ValidateLinks
    \/ ValidateAssetsEnter
    \/ ValidateAsset
    \/ ValidateAssetsFinish
    \/ ValidateReturn
    \/ CliValidate

Spec == Init /\ [][Next]_vars

----------------------------------------------------------------------------
(* Properties.  Diagnostics a step adds are read off the step itself: what
   the list under a path holds after the step beyond what it held before. *)

Suffix(old, new) == SubSeq(new, Len(old) + 1, Len(new))

Added(path) == Suffix(At(results[self], path), At(results'[self], path))

OtherPathsUntouched(paths) ==
    \A q \in Paths(results[self]) \cup Paths(results'[self]) :
        q \notin paths => At(results'[self], q) = At(results[self], q)

HasLink(rel) == \E k \in 1..Len(item.links) : item.links[k].rel = rel

FirstLink(rel) ==
    item.links[CHOOSE k \in 1..Len(item.links) :
                 /\ item.links[k].rel = rel
                 /\ \A j \in 1..(k - 1) : item.links[j].rel # rel]

MissingLink(severity) ==
    << [severity |-> severity, message |-> "missing link", suggestion |-> <<>>] >>

LinkKey(rel) == "links[rel=" \o rel \o "]"

SRRels == {"measurement-normalization", "atmospheric-scattering", "water-vapor",
           "ozone"}

(* C3: the variant-conditional link rules follow card4l:specification.  ST:
   only atmosphere-emissivity is checked; SR: exactly the four SR links, each
   missing one giving one Error under its own key; any other value (absent
   included): one Error under card4l:specification from the property rules
   and nothing under any of the five variant-conditional link keys. *)
C3_VariantLinks ==
    [][ /\ pc = "links" =>
            LET v == property("card4l:specification")
                checked == IF v = Str_ST THEN {"atmosphere-emissivity"}
                           ELSE IF v = Str_SR THEN SRRels ELSE {}
            IN  \A rel \in SRRels \cup {"atmosphere-emissivity"} :
                    Added(LinkKey(rel)) =
                        IF rel \in checked /\ ~HasLink(rel)
                        THEN MissingLink("Error") ELSE <<>>
        /\ pc = "item_properties" =>
            LET a == Added("card4l:specification")
            IN  IF property("card4l:specification") \in {Str_SR, Str_ST}
                THEN a = <<>>
                ELSE Len(a) = 1 /\ a[1].severity = "Error"
      ]_vars

C3_Witness ==
    /\ pc = "assets"
    /\ property("card4l:specification") = Str_SR
    /\ ~HasLink("water-vapor")
    /\ \A rel \in SRRels \ {"water-vapor"} : HasLink(rel)
    /\ At(results[self], "links[rel=water-vapor]") = MissingLink("Error")
    /\ \A rel \in (SRRels \ {"water-vapor"}) \cup {"atmosphere-emissivity"} :
          LinkKey(rel) \notin Paths(results[self])

(* C4: check_link adds at most one diagnostic, under links[rel={rel}] and of
   the requested severity: "missing link" when no link has the relation,
   "invalid media type" when the link exists and a non-empty allowed set does
   not hold its media type, nothing otherwise.  So a missing `access` link
   gives a Warning, a missing or wrongly typed `card4l-document` an Error. *)
C4_CheckLink ==
    /\ [](pc = "links" =>
          \A rel \in {"card4l-document", "access", "ozone"} :
          \A media_types \in {<<>>, <<DOCX, PDF>>, <<PDF>>} :
          \A result_type \in {"Error", "Warning"} :
             check_link(Ok(<<>>), rel, media_types, result_type) =
                Ok(IF ~HasLink(rel)
                   THEN << [path |-> LinkKey(rel), results |-> MissingLink(result_type)] >>
                   ELSE IF /\ media_types # <<>>
                           /\ \A k \in 1..Len(media_types) :
                                 media_types[k] # FirstLink(rel).media_type
                   THEN << [path |-> LinkKey(rel),
                            results |->
                              << [severity |-> result_type,
                                  message |-> "invalid media type: actual="
                                     \o FirstLink(rel).media_type \o ", expected="
                                     \o (IF Len(media_types) = 1
                                         THEN "['application/pdf']"
                                         ELSE "['application/vnd.openxmlformats-officedocument.wordprocessingml.document', 'application/pdf']"),
                                  suggestion |-> <<>>] >>] >>
                   ELSE <<>>))
    /\ [][pc = "links" =>
            /\ Added("links[rel=access]") =
                  IF HasLink("access") THEN <<>> ELSE MissingLink("Warning")
            /\ LET a == Added("links[rel=card4l-document]")
               IN  IF ~HasLink("card4l-document") THEN a = MissingLink("Error")
                   ELSE IF FirstLink("card4l-document").media_type \notin {DOCX, PDF}
                   THEN Len(a) = 1 /\ a[1].severity = "Error"
                   ELSE a = <<>>
       ]_vars

C4_Witness ==
    /\ pc = "assets"
    /\ ~HasLink("access")
    /\ At(results[self], "links[rel=access]") = MissingLink("Warning")
    /\ HasLink("card4l-document")
    /\ FirstLink("card4l-document").media_type = "text/html"
    /\ Len(At(results[self], "links[rel=card4l-document]")) = 1
    /\ At(results[self], "links[rel=card4l-document]")[1].severity = "Error"

Mandatory == {"data", "incomplete-testing", "saturation", "cloud", "cloud-shadow"}

AssetKey(role) == "assets[role=" \o role \o "]"

C2_Priority ==
    << "date", "incomplete-testing", "saturation", "cloud", "cloud-shadow",
       "snow-ice", "land-water", "incidence-angle", "azimuth", "sun-azimuth",
       "sun-elevation", "terrain-shadow", "terrain-occlusion",
       "terrain-illumination" >>

C2_Category(roles) ==
    IF "data" \in roles /\ roles \cap {"reflectance", "temperature"} # {}
    THEN "data"
    ELSE IF "metadata" \in roles /\ \E k \in 1..Len(C2_Priority) : C2_Priority[k] \in roles
    THEN C2_Priority[CHOOSE k \in 1..Len(C2_Priority) :
                        /\ C2_Priority[k] \in roles
                        /\ \A j \in 1..(k - 1) : C2_Priority[j] \notin roles]
    ELSE "none"

C2_Missing(role) ==
    << [severity |-> "Error",
        message |-> IF role = "data"
                    THEN "missing asset with roles: (reflectance or temperature), data"
                    ELSE "missing asset with roles: " \o role \o ", metadata",
        suggestion |-> <<>>] >>

(* C2: for a record whose assets all have non-empty role sets, each asset is
   classified into at most one category by first-match priority, and
   validate_assets then emits exactly one Error under assets[role=C] for each
   mandatory C if and only if no asset was classified as C, and no other
   diagnostic. *)
C2_AssetCategories ==
    [][ (pc = "assets_loop" /\ \A k \in 1..Len(item.assets) : item.assets[k] # {}) =>
          IF i <= Len(item.assets)
          THEN pc' = "assets_loop" /\ results' = results
          ELSE /\ pc' = "return"
               /\ \A role \in Mandatory :
                     Added(AssetKey(role)) =
                        IF \E k \in 1..Len(item.assets) :
                              C2_Category(item.assets[k]) = role
                        THEN <<>> ELSE C2_Missing(role)
               /\ OtherPathsUntouched({AssetKey(role) : role \in Mandatory})
      ]_vars

C2_Witness ==
    /\ pc = "return"
    /\ \A k \in 1..Len(item.assets) : item.assets[k] # {}
    /\ \E k \in 1..Len(item.assets) : item.assets[k] = {"metadata", "date", "cloud"}
    /\ \E k \in 1..Len(item.assets) : item.assets[k] = {"data", "temperature"}
    /\ At(results[self], AssetKey("cloud")) = C2_Missing("cloud")
    /\ AssetKey("data") \notin Paths(results[self])

C5_MissingExtension(extension) ==
    [severity |-> "Error", message |-> "missing required extension: " \o extension,
     suggestion |-> <<>>]

(* C5: for each required extension validate_extensions adds at most one Error
   under `extension`: not declared: "missing required extension: {id}" and the
   schema validator is not invoked; declared: the schema validator is invoked
   exactly once and "object does not pass validation against {id}", with a
   suggestion, is added only when it fails.  The list follows the order of the
   required-extension list. *)
C5_Extensions ==
    /\ [](pc \notin {"idle", "extensions"} =>
            \A k \in 1..Len(REQUIRED_EXTENSIONS) :
               invoked[k] = IF REQUIRED_EXTENSIONS[k] \in item.stac_extensions
                            THEN 1 ELSE 0)
    /\ [][pc = "extensions" =>
            LET extension == REQUIRED_EXTENSIONS[i]
                a == Added("extension")
            IN  /\ OtherPathsUntouched({"extension"})
                /\ IF i < Len(REQUIRED_EXTENSIONS)
                   THEN pc' = "extensions" /\ i' = i + 1
                   ELSE pc' = "stac_items"
                /\ \A k \in 1..Len(REQUIRED_EXTENSIONS) : k # i => invoked'[k] = invoked[k]
                /\ IF extension \notin item.stac_extensions
                   THEN a = << C5_MissingExtension(extension) >> /\ invoked'[i] = invoked[i]
                   ELSE /\ invoked'[i] = invoked[i] + 1
                        /\ IF extension \in item.schema_invalid
                           THEN /\ Len(a) = 1
                                /\ a[1].severity = "Error"
                                /\ a[1].message =
                                     "object does not pass validation against " \o extension
                                /\ a[1].suggestion # <<>>
                           ELSE a = <<>>
       ]_vars

C5_Witness ==
    /\ pc = "stac_items"
    /\ REQUIRED_EXTENSIONS[1] \notin item.stac_extensions
    /\ REQUIRED_EXTENSIONS[3] \in item.schema_invalid
    /\ item.stac_extensions = ExtSet \ {REQUIRED_EXTENSIONS[1]}
    /\ item.schema_invalid = {REQUIRED_EXTENSIONS[3]}
    /\ Len(At(results[self], "extension")) = 2
    /\ At(results[self], "extension")[1] = C5_MissingExtension(REQUIRED_EXTENSIONS[1])
    /\ At(results[self], "extension")[2].suggestion # <<>>
    /\ invoked = <<0, 1, 1, 1>>

Observed(seen) == {seen.items[k] : k \in 1..Len(seen.items)}

(* C1: in validate_assets an asset with an empty role set is skipped with no
   classification and no diagnostic, the observed mandatory categories only
   grow over the iteration, the loop continues with the remaining assets, and
   validate_assets completes and emits its missing-category diagnostics. *)
C1_RoleLessSkipped ==
    [][ pc = "assets_loop" =>
          IF i <= Len(item.assets)
          THEN /\ pc' = "assets_loop"
               /\ i' = i + 1
               /\ results' = results
               /\ ~seen_required_roles'.isNone
               /\ Observed(seen_required_roles) \subseteq Observed(seen_required_roles')
               /\ item.assets[i] = {} => seen_required_roles' = seen_required_roles
          ELSE pc' = "return"
      ]_vars

(* C6: validation keeps no state across calls: every call on the unchanged
   record returns the same ResultSet as the first call did when it returned,
   and a later call never alters a result already returned. *)
C6_NoStateAcrossCalls ==
    \A j \in 1..Len(returned) :
       /\ results[returned[j].ref] = returned[j].snap
       /\ \A k \in 1..Len(returned) : returned[k].snap = returned[j].snap

AccuracyProps ==
    {"card4l:northern_geometric_accuacy", "card4l:eastern_geometric_accuacy"}

C7_Numeric(v) == v.t = "num" \/ (v.t = "str" /\ IsFloatLiteral(v.s))

(* C7: for each geometric-accuracy property and each sub-field in {bias,
   stddev}: object missing: an Error naming the missing sub-field path;
   object present and sub-field not a number (non-numeric string, null or
   absent, non-scalar): one Error "value is not a number"; sub-field numeric:
   nothing.  The check never raises and the remaining rules still run. *)
C7_GeometricAccuracy ==
    [][ pc = "item_properties" =>
          /\ pc' = "links"
          /\ exc' = ""
          /\ \A p \in AccuracyProps : \A sub \in MemberNames :
                LET d == property(p)
                    a == Added(p \o "." \o sub)
                IN  IF ~Truthy(d)
                    THEN /\ a = <<>>
                         /\ \E k \in 1..Len(Added(p)) :
                               /\ Added(p)[k].severity = "Error"
                               /\ Added(p)[k].message =
                                    "expected property is missing: " \o p \o "." \o sub
                    ELSE IF d.t = "dict" /\ C7_Numeric(DictGet(d, sub))
                    THEN a = <<>>
                    ELSE Len(a) = 1 /\ a[1].severity = "Error"
      ]_vars

C8_Fields ==
    {"datetime", "instruments", "view:off_nadir", "view:azimuth",
     "view:sun_azimuth", "view:sun_elevation"}

C8_Value(name) ==
    IF name = "datetime" THEN item.datetime
    ELSE IF name = "instruments" THEN item.instruments
    ELSE property(name)

C8_AbsentNullOrEmpty(v) ==
    \/ v.t = "None"
    \/ v.t = "list" /\ v.n = 0
    \/ v.t = "str" /\ v.s = <<>>

(* C8: for each of the six required-non-null fields an Error "missing
   required property: {name}" is added under {name} exactly when the field is
   absent, null or empty; any present non-null value, every numeric value
   included, produces no diagnostic under that key.  (The message text is
   compared for the four view fields; for datetime and instruments, whose
   rules word their message differently, one Error under the key is asked.) *)
C8_RequiredNonNull ==
    [][ (pc = "item_properties" /\ pc' = "links") =>
          \A name \in C8_Fields :
             LET a == Added(name)
             IN  IF C8_AbsentNullOrEmpty(C8_Value(name))
                 THEN /\ Len(a) = 1
                      /\ a[1].severity = "Error"
                      /\ name \notin {"datetime", "instruments"} =>
                            a[1].message = "missing required property: " \o name
                 ELSE a = <<>>
      ]_vars

RECURSIVE C9_Results(_)
C9_Results(rl) ==
    IF rl = <<>> THEN <<>>
    ELSE << (IF is_error(rl[1]) THEN "  - ERROR: " ELSE "  - WARNING: ")
            \o rl[1].message >>
         \o (IF rl[1].suggestion # <<>>
             THEN << "    SUGGESTION: " \o rl[1].suggestion[1] >>
             ELSE <<>>)
         \o C9_Results(Tail(rl))

RECURSIVE C9_Paths(_)
C9_Paths(rs) ==
    IF rs = <<>> THEN <<>>
    ELSE << "At '" \o rs[1].path \o "': " >> \o C9_Results(rs[1].results)
         \o C9_Paths(Tail(rs))

(* C9: the `validate` command prints every diagnostic with the label of its
   own severity (ERROR for an Error, WARNING for a Warning), then its message
   and, when present, its suggestion; an empty ResultSet prints only the
   success indicator. *)
C9_LabelsMatchSeverity ==
    out # <<>> =>
        LET rs == results[returned[Len(returned)].ref]
        IN  out = IF rs = <<>> THEN << "OK" >> ELSE C9_Paths(rs)

IsPrefix(a, b) == Len(a) <= Len(b) /\ SubSeq(b, 1, Len(a)) = a

(* C10: Validator.validate runs the five checkers in the order extensions,
   structural, properties, links, assets; every checker runs on every record
   whatever the earlier ones found, so one call returns the union of all
   checkers' diagnostics; entries already in the result map are never removed
   or overwritten by a later checker. *)
C10_AllCheckersRun ==
    [][ /\ pc = "extensions" => pc' \in {"extensions", "stac_items"}
        /\ pc = "stac_items" => pc' = "item_properties"
        /\ pc = "item_properties" => pc' = "links"
        /\ pc = "links" => pc' = "assets"
        /\ pc = "assets" => pc' = "assets_loop"
        /\ pc = "assets_loop" => pc' \in {"assets_loop", "return"}
        /\ pc = "return" => pc' = "idle" /\ exc' = ""
        /\ pc # "idle" =>
              \A q \in Paths(results[self]) :
                 IsPrefix(At(results[self], q), At(results'[self], q))
      ]_vars

====
